---- MODULE Spec2Model ----
(***************************************************************************)
(* ATP.get_tournament_singles_results (src/src/atp.py, lines 180-257):     *)
(* the walk over a tournament results page that turns day groups and match *)
(* blocks into MatchResult records.                                        *)
(*                                                                         *)
(* The page is the input.  It is held as the lists the xpath queries of    *)
(* the function return: a page is the list of its day groups, a day group  *)
(* has its date text, the list of hrefs of its "Stats" links and the list  *)
(* of its match blocks.  A text that the code splits is held as the list   *)
(* of its pieces (an href as its '/' segments, a duration as its ':'       *)
(* parts, a date as its blank-separated words without the commas), a text  *)
(* that the code hands to int() as a string.                               *)
(*                                                                         *)
(* Input domain: every day group has its date heading, every competitor    *)
(* block has a profile link of at least five segments, the tokens of the   *)
(* score entries are numerals, day groups are not nested.                  *)
(***************************************************************************)
EXTENDS Integers, Sequences, FiniteSets, TLC

VARIABLES page, pc, di, mi, date, match_ref, entries, result, error

vars == <<page, pc, di, mi, date, match_ref, entries, result, error>>

(***************************************************************************)
(* Bounds of the input.                                                    *)
(***************************************************************************)
MaxDays == 2
MaxMatches == 3
MaxItems == 2
MaxBlocks == 3

(***************************************************************************)
(* Python values.                                                          *)
(***************************************************************************)
None == [some |-> FALSE, val |-> 0]
Some(v) == [some |-> TRUE, val |-> v]

\* the texts int() accepts, with their values
Numeral ==
    ("0" :> 0) @@ ("00" :> 0) @@ ("1" :> 1) @@ ("3" :> 3) @@ ("6" :> 6) @@
    ("7" :> 7) @@ ("15" :> 15) @@ ("16" :> 16) @@ ("30" :> 30) @@
    ("45" :> 45) @@ ("2024" :> 2024)

IsNumeral(s) == s \in DOMAIN Numeral

int(s) == Numeral[s]

Min(a, b) == IF a <= b THEN a ELSE b

\* list[i] for a Python index: 0-based, a negative index counts from the end
PyIndex(list, i) == IF i >= 0 THEN list[i + 1] ELSE list[Len(list) + i + 1]

\* the caller's arguments (atp-cli.py)
tournament == [id |-> 336, slug |-> "hong-kong"]
year == 2024

(***************************************************************************)
(* Day Segmenter: the date and the shared match reference of a day group.  *)
(***************************************************************************)
WeekdayAbbr == {"Mon", "Tue", "Wed", "Thu", "Fri", "Sat", "Sun"}

MonthNumber ==
    ("January" :> 1) @@ ("February" :> 2) @@ ("March" :> 3) @@ ("April" :> 4) @@
    ("May" :> 5) @@ ("June" :> 6) @@ ("July" :> 7) @@ ("August" :> 8) @@
    ("September" :> 9) @@ ("October" :> 10) @@ ("November" :> 11) @@
    ("December" :> 12)

NoDate == [y |-> 0, m |-> 0, d |-> 0]

\* datetime.strptime(text, '%a, %d %B, %Y').date(): err is the ValueError
strptime(text) ==
    IF /\ Len(text) = 4
       /\ text[1] \in WeekdayAbbr
       /\ IsNumeral(text[2])
       /\ text[3] \in DOMAIN MonthNumber
       /\ IsNumeral(text[4])
       /\ int(text[2]) \in 1..31
    THEN [err |-> FALSE,
          val |-> [y |-> int(text[4]), m |-> MonthNumber[text[3]], d |-> int(text[2])]]
    ELSE [err |-> TRUE, val |-> NoDate]

\* stats_href[0]: an IndexError on the empty list
StatsRaises(stats_href) == Len(stats_href) = 0

\* MatchRef(tournament_id, year, match_id=stats_href[0].split('/')[-1])
MatchRefOf(stats_href) ==
    [tournament_id |-> tournament.id, year |-> year,
     match_id |-> stats_href[1][Len(stats_href[1])]]

NoMatchRef == [tournament_id |-> tournament.id, year |-> year, match_id |-> ""]

(***************************************************************************)
(* Match Block Parser.                                                     *)
(***************************************************************************)
\* map(int, duration.split(':')) unpacked into three names: a ValueError
\* when there are not three parts or a part is no integer
DurationRaises(duration) ==
    /\ Len(duration) = 1
    /\ \/ Len(duration[1]) # 3
       \/ \E k \in 1..Len(duration[1]) : ~IsNumeral(duration[1][k])

\* duration[0] if len(duration) == 1 else None, then dur_hrs * 60 + dur_mins
DurationOf(duration) ==
    IF Len(duration) = 1
    THEN Some(int(duration[1][1]) * 60 + int(duration[1][2]))
    ELSE None

\* PlayerRef(id=player_href.split('/')[4], slug=player_href.split('/')[3])
PlayerRefOf(player_href) == [id |-> player_href[5], slug |-> player_href[4]]

\* match len(scores): case 1, case 2; any other count appends nothing
ScoreCounts(scores) == Len(scores) = 1 \/ Len(scores) = 2

\* int(scores[0]), int(scores[1]): a ValueError when a token is no integer
ScoreRaises(score_items) ==
    \E k \in 1..Len(score_items) :
        /\ ScoreCounts(score_items[k])
        /\ \E t \in 1..Len(score_items[k]) : ~IsNumeral(score_items[k][t])

RECURSIVE SetsOf(_)
\* the list `sets` of one competitor block
SetsOf(score_items) ==
    IF score_items = <<>> THEN <<>>
    ELSE LET scores == Head(score_items)
         IN  IF ScoreCounts(scores)
             THEN <<int(scores[1])>> \o SetsOf(Tail(score_items))
             ELSE SetsOf(Tail(score_items))

RECURSIVE TiebreaksOf(_)
\* the list `tiebreaks` of one competitor block
TiebreaksOf(score_items) ==
    IF score_items = <<>> THEN <<>>
    ELSE LET scores == Head(score_items)
         IN  IF Len(scores) = 1
             THEN <<None>> \o TiebreaksOf(Tail(score_items))
             ELSE IF Len(scores) = 2
                  THEN <<Some(int(scores[2]))>> \o TiebreaksOf(Tail(score_items))
                  ELSE TiebreaksOf(Tail(score_items))

\* the lists the loop over the stats-items builds
players(match) == [k \in 1..Len(match.blocks) |-> PlayerRefOf(match.blocks[k].href)]
player_sets(match) == [k \in 1..Len(match.blocks) |-> SetsOf(match.blocks[k].scores)]
player_tbs(match) == [k \in 1..Len(match.blocks) |-> TiebreaksOf(match.blocks[k].scores)]

NoWinner == -1

\* winner_idx: the (0-based) index of the last block with a winner marker
winner_idx(match) ==
    LET marked == {k \in 1..Len(match.blocks) : match.blocks[k].winner}
    IN  IF marked = {} THEN NoWinner
        ELSE (CHOOSE k \in marked : \A j \in marked : j <= k) - 1

\* a slip the claim C7 would catch: len(players) < 2
Discarded_FewerThanTwo(match) == Len(players(match)) < 2 \/ winner_idx(match) = NoWinner

\* if len(players) != 2 or winner_idx is None: continue
Discarded(match) == Len(players(match)) # 2 \/ winner_idx(match) = NoWinner

\* an exception raised while the match block is read
MatchRaises(match) ==
    \/ DurationRaises(match.duration)
    \/ \E k \in 1..Len(match.blocks) : ScoreRaises(match.blocks[k].scores)

(***************************************************************************)
(* Set Alignment and Format Inference.                                     *)
(***************************************************************************)
\* the number of triples zip(wsets, lsets, wtbs) yields
sets_played(wsets, lsets, wtbs) == Min(Len(wsets), Min(Len(lsets), Len(wtbs)))

\* a slip the claim C2 would catch: the tiebreak value is not looked at
WonSet_GamesOnly(wset, lset, wtbs) == wset >= lset

\* wset >= lset or wtbs is not None
WonSet(wset, lset, wtbs) == wset >= lset \/ wtbs # None

\* winner_won_sets after the zip loop
winner_won_sets(wsets, lsets, wtbs) ==
    Cardinality({k \in 1..sets_played(wsets, lsets, wtbs) :
                    WonSet(wsets[k], lsets[k], wtbs[k])})

\* best_of=3 if winner_won_sets == 2 else 5
best_of(won) == IF won = 2 THEN 3 ELSE 5

(***************************************************************************)
(* Record Assembler.                                                       *)
(***************************************************************************)
NumSlots == 5

\* a slip the claim C1 would catch: sets_played > i
SetSlot_OffByOne(sets, i, played) == IF played > i THEN Some(sets[i]) ELSE None

\* player_sets[..][i-1] if sets_played >= i else None
SetSlot(sets, i, played) == IF played >= i THEN Some(sets[i]) ELSE None

\* player_tbs[..][i-1] if sets_played >= i else None
TbSlot(tbs, i, played) == IF played >= i THEN tbs[i] ELSE None

\* the MatchResult of a match that is not discarded; w, w_tb, l, l_tb hold
\* the fields w1..w5, w1_tb..w5_tb, l1..l5, l1_tb..l5_tb
MatchResultOf(match, mref, dt) ==
    LET w      == winner_idx(match)
        l      == 1 - winner_idx(match)
        wsets  == PyIndex(player_sets(match), w)
        lsets  == PyIndex(player_sets(match), l)
        wtbs   == PyIndex(player_tbs(match), w)
        ltbs   == PyIndex(player_tbs(match), l)
        played == sets_played(wsets, lsets, wtbs)
    IN  [match_ref |-> mref,
         date      |-> dt,
         duration  |-> DurationOf(match.duration),
         best_of   |-> best_of(winner_won_sets(wsets, lsets, wtbs)),
         winner    |-> PyIndex(players(match), w),
         loser     |-> PyIndex(players(match), l),
         w         |-> [i \in 1..NumSlots |-> SetSlot(wsets, i, played)],
         w_tb      |-> [i \in 1..NumSlots |-> TbSlot(wtbs, i, played)],
         l         |-> [i \in 1..NumSlots |-> SetSlot(lsets, i, played)],
         l_tb      |-> [i \in 1..NumSlots |-> TbSlot(ltbs, i, played)]]

\* a slip the claim C8 would catch: entries.insert(0, MatchResult(...))
Emit_Prepend(es, rec) == <<rec>> \o es

\* entries.append(MatchResult(...))
Emit(es, rec) == Append(es, rec)

(***************************************************************************)
(* The pages the walk is checked on.                                       *)
(***************************************************************************)
SeqsUpTo(S, n) == UNION {[1..k -> S] : k \in 0..n}

Href(slug, id) == <<"", "en", "players", slug, id, "overview">>

StatsHref == <<"", "en", "scores", "stats-centre", "archive", "2024", "336", "ms001">>

Slugs == {"novak-djokovic", "rafael-nadal"}

PlayerId == ("novak-djokovic" :> "d643") @@ ("rafael-nadal" :> "n409")

GoodDate == <<"Mon", "15", "January", "2024">>
BadDate == <<"2024-01-15">>

\* score entries: games only, games with a tiebreak, and three tokens
ScoreItems == {<<"6">>, <<"7">>, <<"6", "3">>, <<"6", "3", "1">>}

\* duration texts: none, 1:30:00, 1:30, x:30:00
Durations == {<<>>, <<<<"1", "30", "00">>>>, <<<<"1", "30">>>>, <<<<"x", "30", "00">>>>}

Block(slug, marked, score_items) ==
    [href |-> Href(slug, PlayerId[slug]), winner |-> marked, scores |-> score_items]

\* two competitors, every combination of winner markers and score entries
ScoreMatches ==
    {[duration |-> <<>>,
      blocks |-> <<Block("novak-djokovic", m[1], s[1]), Block("rafael-nadal", m[2], s[2])>>] :
        m \in BOOLEAN \X BOOLEAN,
        s \in SeqsUpTo(ScoreItems, MaxItems) \X SeqsUpTo(ScoreItems, MaxItems)}

\* every duration text, any number of competitors, any profile links
ShapeMatches ==
    {[duration |-> d, blocks |-> b] :
        d \in Durations,
        b \in SeqsUpTo({Block(g, m, <<<<"6">>>>) : g \in Slugs, m \in BOOLEAN}, MaxBlocks)}

\* the matches of the pages of several days
DayMatches ==
    {[duration |-> <<<<"1", "30", "00">>>>,
      blocks |-> <<Block("novak-djokovic", TRUE, <<<<"6">>, <<"7">>>>),
                   Block("rafael-nadal", FALSE, <<<<"3">>, <<"6", "3">>>>)>>],
     [duration |-> <<>>,
      blocks |-> <<Block("novak-djokovic", FALSE, <<<<"6", "3">>, <<"3">>, <<"3">>>>),
                   Block("rafael-nadal", TRUE, <<<<"7">>, <<"6">>, <<"6">>>>)>>],
     [duration |-> <<>>,
      blocks |-> <<Block("novak-djokovic", TRUE, <<<<"6">>>>),
                   Block("rafael-nadal", FALSE, <<<<"3">>>>),
                   Block("rafael-nadal", FALSE, <<<<"3">>>>)>>],
     [duration |-> <<<<"0", "45", "00">>>>,
      blocks |-> <<Block("novak-djokovic", FALSE, <<<<"3">>>>),
                   Block("rafael-nadal", FALSE, <<<<"1">>>>)>>]}

Day(dt, stats, matches) == [date |-> dt, stats |-> stats, matches |-> matches]

\* a match of DayMatches that yields a MatchResult
OneMatch ==
    CHOOSE m \in DayMatches :
        Len(m.blocks) = 2 /\ Len(m.duration) = 1 /\ \E k \in 1..2 : m.blocks[k].winner

\* the day groups of up to n match blocks: any matches under a date that
\* parses and a "Stats" link, one match under a date that does not parse,
\* one match without a "Stats" link
Days(n) ==
    {Day(GoodDate, <<StatsHref>>, ms) : ms \in SeqsUpTo(DayMatches, n)}
        \cup (IF n >= 1
              THEN {Day(BadDate, <<StatsHref>>, <<OneMatch>>), Day(GoodDate, <<>>, <<OneMatch>>)}
              ELSE {})

RECURSIVE DaySeqs(_, _)
\* the lists of up to n day groups with up to k match blocks in all
DaySeqs(n, k) ==
    IF n = 0 THEN {<<>>}
    ELSE {<<>>} \cup UNION {{<<d>> \o r : r \in DaySeqs(n - 1, k - Len(d.matches))} : d \in Days(k)}

\* up to MaxDays day groups with up to MaxMatches match blocks in all, or
\* one day group with one match block of any content
Pages ==
    DaySeqs(MaxDays, MaxMatches)
        \cup {<<Day(GoodDate, <<StatsHref>>, <<m>>)>> : m \in ScoreMatches \cup ShapeMatches}

(***************************************************************************)
(* The walk.  pc is the place in the function: at the head of the loop     *)
(* over the day groups ("day"), at the head of the loop over the match     *)
(* blocks of day di ("match"), after return ("returned"), or left by an    *)
(* exception ("raised").                                                   *)
(***************************************************************************)
Init ==
    /\ page \in Pages
    /\ pc = "day"
    /\ di = 1
    /\ mi = 1
    /\ date = NoDate
    /\ match_ref = NoMatchRef
    /\ entries = <<>>
    /\ result = <<>>
    /\ error = ""

Raise(name) ==
    /\ pc' = "raised"
    /\ error' = name
    /\ UNCHANGED <<page, di, mi, date, match_ref, entries, result>>

\* a change the claim C6 (as amended) would catch: the day is skipped
DayDateError_Skip ==
    /\ pc = "day"
    /\ di <= Len(page)
    /\ strptime(page[di].date).err
    /\ di' = di + 1
    /\ UNCHANGED <<page, pc, mi, date, match_ref, entries, result, error>>

\* line 189: the date text does not match the format
DayDateError ==
    /\ pc = "day"
    /\ di <= Len(page)
    /\ strptime(page[di].date).err
    /\ Raise("ValueError")

\* line 193: no "Stats" link in the day group
DayStatsError ==
    /\ pc = "day"
    /\ di <= Len(page)
    /\ ~strptime(page[di].date).err
    /\ StatsRaises(page[di].stats)
    /\ Raise("IndexError")

\* lines 187-193: the head of a day group
DayBegin ==
    /\ pc = "day"
    /\ di <= Len(page)
    /\ ~strptime(page[di].date).err
    /\ ~StatsRaises(page[di].stats)
    /\ date' = strptime(page[di].date).val
    /\ match_ref' = MatchRefOf(page[di].stats)
    /\ mi' = 1
    /\ pc' = "match"
    /\ UNCHANGED <<page, di, entries, result, error>>

\* lines 199, 213-217: a text that int() or the unpacking rejects
MatchError ==
    /\ pc = "match"
    /\ mi <= Len(page[di].matches)
    /\ MatchRaises(page[di].matches[mi])
    /\ Raise("ValueError")

\* lines 195-225: a match block that is dropped
MatchDiscard ==
    /\ pc = "match"
    /\ mi <= Len(page[di].matches)
    /\ ~MatchRaises(page[di].matches[mi])
    /\ Discarded(page[di].matches[mi])
    /\ mi' = mi + 1
    /\ UNCHANGED <<page, pc, di, date, match_ref, entries, result, error>>

\* lines 195-256: a match block that yields a MatchResult
MatchEmit ==
    /\ pc = "match"
    /\ mi <= Len(page[di].matches)
    /\ ~MatchRaises(page[di].matches[mi])
    /\ ~Discarded(page[di].matches[mi])
    /\ entries' = Emit(entries, MatchResultOf(page[di].matches[mi], match_ref, date))
    /\ mi' = mi + 1
    /\ UNCHANGED <<page, pc, di, date, match_ref, result, error>>

\* line 195: the match blocks of the day are exhausted
DayEnd ==
    /\ pc = "match"
    /\ mi > Len(page[di].matches)
    /\ di' = di + 1
    /\ pc' = "day"
    /\ UNCHANGED <<page, mi, date, match_ref, entries, result, error>>

\* line 257: return entries
Return ==
    /\ pc = "day"
    /\ di > Len(page)
    /\ result' = entries
    /\ pc' = "returned"
    /\ UNCHANGED <<page, di, mi, date, match_ref, entries, error>>

Next ==
    \/ DayDateError
    \/ DayStatsError
    \/ DayBegin
    \/ MatchError
    \/ MatchDiscard
    \/ MatchEmit
    \/ DayEnd
    \/ Return

Spec == Init /\ [][Next]_vars

(***************************************************************************)
(* The page as the claims read it.                                         *)
(***************************************************************************)
Terminated == pc \in {"returned", "raised"}

\* what the caller receives: the returned list, nothing after an exception
Output == IF pc = "returned" THEN result ELSE <<>>

MatchAt(p) == page[p[1]].matches[p[2]]

Positions == {<<d, m>> : d \in 1..MaxDays + 1, m \in 1..MaxMatches + 1}

MatchPositions == {p \in Positions : p[1] <= Len(page) /\ p[2] <= Len(page[p[1]].matches)}

Before(p, q) == p[1] < q[1] \/ (p[1] = q[1] /\ p[2] < q[2])

\* the positions in S in document order
InOrder(S) ==
    [k \in 1..Cardinality(S) |->
        CHOOSE p \in S : Cardinality({q \in S : Before(q, p)}) = k - 1]

Marked(match) == {k \in 1..Len(match.blocks) : match.blocks[k].winner}

\* a match that is not discarded: two competitors, a winner marker
Survives(match) == Len(match.blocks) = 2 /\ Marked(match) # {}

Survivors == InOrder({p \in MatchPositions : Survives(MatchAt(p))})

\* a duration text of the form H:MM:SS with integer parts
WellFormed(text) == Len(text) = 3 /\ \A k \in 1..3 : IsNumeral(text[k])

DurationsFine == \A p \in MatchPositions : \A k \in 1..Len(MatchAt(p).duration) : WellFormed(MatchAt(p).duration[k])

DatesFine == \A d \in 1..Len(page) : ~strptime(page[d].date).err

StatsFine == \A d \in 1..Len(page) : page[d].stats # <<>>

\* the score entries of a block with one or two tokens
ValidEntries(block) == {k \in 1..Len(block.scores) : Len(block.scores[k]) \in {1, 2}}

\* the shorter of the two competitors' set sequences
AlignedSets(match) ==
    Min(Cardinality(ValidEntries(match.blocks[1])), Cardinality(ValidEntries(match.blocks[2])))

\* the aligned pairs of a record that count for the victor
VictorSetsWon(e) ==
    Cardinality({i \in 1..NumSlots :
        /\ e.w[i] # None
        /\ e.l[i] # None
        /\ (e.w[i].val >= e.l[i].val \/ e.w_tb[i] # None)})

(***************************************************************************)
(* The claims.                                                             *)
(***************************************************************************)

\* C1: in every emitted MatchResult and for every slot i in 1..5, the
\* winner's slot i is absent iff the loser's slot i is absent iff
\* i > sets_played, the shorter of the two competitors' set sequences.
C1_SlotsAbsentBeyondSetsPlayed ==
    LET surv == Survivors
    IN  \A k \in 1..Min(Len(entries), Len(surv)) :
            LET e  == entries[k]
                sp == AlignedSets(MatchAt(surv[k]))
            IN  \A i \in 1..NumSlots :
                    /\ (e.w[i] = None) <=> (i > sp)
                    /\ (e.l[i] = None) <=> (i > sp)
                    /\ (i > sp) => (e.w_tb[i] = None /\ e.l_tb[i] = None)

\* a record with one set played: slot 1 filled, slot 2 absent, from
\* competitors whose set sequences differ in length
C1_Witness ==
    \E k \in 1..Min(Len(entries), Len(Survivors)) :
        /\ entries[k].w[1] # None
        /\ entries[k].l[1] # None
        /\ entries[k].w[2] = None
        /\ entries[k].l[2] = None
        /\ Cardinality(ValidEntries(MatchAt(Survivors[k]).blocks[1]))
             # Cardinality(ValidEntries(MatchAt(Survivors[k]).blocks[2]))

\* C2: every emitted MatchResult has best_of 3 or 5, and 3 exactly when the
\* number of aligned pairs won by the victor (games >= the opponent's, or a
\* tiebreak value in the victor's slot) is 2.
C2_BestOfFollowsSetsWon ==
    \A k \in 1..Len(entries) :
        /\ entries[k].best_of \in {3, 5}
        /\ (entries[k].best_of = 3) <=> (VictorSetsWon(entries[k]) = 2)

\* a best-of-three record with a set counted for the victor by its tiebreak
\* value alone
C2_Witness ==
    \E k \in 1..Len(entries) :
        /\ entries[k].best_of = 3
        /\ \E i \in 1..NumSlots :
            /\ entries[k].w[i] # None
            /\ entries[k].w[i].val < entries[k].l[i].val
            /\ entries[k].w_tb[i] # None

\* C3 as stated: a day group without a "Stats" link raises no error, and its
\* matches are emitted with an empty match id.
C3_MissingStatsStillParses ==
    (Terminated /\ DatesFine /\ DurationsFine /\ ~StatsFine)
        => /\ pc = "returned"
           /\ Len(result) = Len(Survivors)
           /\ \A k \in 1..Min(Len(result), Len(Survivors)) :
                page[Survivors[k][1]].stats = <<>> => result[k].match_ref.match_id = ""

\* C4 as stated: a malformed duration raises no error and the match is
\* emitted with its duration absent; a well-formed H:MM:SS is H*60+MM.
C4_MalformedDurationIsAbsent ==
    (Terminated /\ DatesFine /\ StatsFine)
        => /\ pc = "returned"
           /\ Len(result) = Len(Survivors)
           /\ \A k \in 1..Min(Len(result), Len(Survivors)) :
                LET d == MatchAt(Survivors[k]).duration
                IN  result[k].duration =
                        IF Len(d) = 1 /\ WellFormed(d[1])
                        THEN Some(int(d[1][1]) * 60 + int(d[1][2]))
                        ELSE None

\* C5 as stated: a match with no winner marker, or with a winner marker in
\* both competitor blocks, yields no MatchResult.
C5_UndeterminedWinnerExcluded ==
    pc = "returned"
        => Len(result) =
             Cardinality({p \in MatchPositions :
                Len(MatchAt(p).blocks) = 2 /\ Cardinality(Marked(MatchAt(p))) = 1})

C8_DocumentOrder ==
    LET surv == Survivors
    IN  /\ Len(entries) <= Len(surv)
        /\ pc = "returned" => (Len(result) = Len(surv) /\ result = entries)
        /\ \A k \in 1..Min(Len(entries), Len(surv)) :
            LET m == MatchAt(surv[k])
            IN  /\ entries[k].winner \in {PlayerRefOf(m.blocks[j].href) : j \in Marked(m)}
                /\ entries[k].loser \in {PlayerRefOf(m.blocks[j].href) : j \in 1..2}
                /\ entries[k].duration.some = (Len(m.duration) = 1)
                /\ entries[k].date.d = int(page[surv[k][1]].date[2])

\* two days, a day of two match blocks, two different records returned, a
\* discarded match among the match blocks
C8_Witness ==
    /\ pc = "returned"
    /\ Len(page) = 2
    /\ \E d \in 1..2 : Len(page[d].matches) = 2
    /\ Len(result) = 2
    /\ result[1] # result[2]
    /\ \E p \in MatchPositions : ~Survives(MatchAt(p))

\* C9 as stated: every emitted MatchResult has a winner PlayerRef different
\* from its loser PlayerRef, also when the two profile links are identical.
C9_WinnerDiffersFromLoser ==
    \A k \in 1..Len(entries) : entries[k].winner # entries[k].loser

\* C10 as stated: in every populated slot i the winner's and the loser's
\* values are those of score entry i of the two competitor blocks; a dropped
\* score entry leaves a gap and shifts no later set to an earlier slot.
C10_SlotsHoldTheSamePhysicalSet ==
    \A k \in 1..Min(Len(entries), Len(Survivors)) :
        LET m == MatchAt(Survivors[k])
            e == entries[k]
        IN  PlayerRefOf(m.blocks[1].href) # PlayerRefOf(m.blocks[2].href)
              => LET wb == CHOOSE b \in 1..2 : PlayerRefOf(m.blocks[b].href) = e.winner
                     lb == 3 - wb
                 IN  \A i \in 1..NumSlots :
                        e.w[i] # None
                          => /\ i \in ValidEntries(m.blocks[wb])
                             /\ i \in ValidEntries(m.blocks[lb])
                             /\ e.w[i].val = int(m.blocks[wb].scores[i][1])
                             /\ e.l[i].val = int(m.blocks[lb].scores[i][1])

====
